---- MODULE Spec2Model ----
(***************************************************************************)
(* Timetable service: cache-key construction and the cached JSON table     *)
(* (api/config/redis_config.py, api/routes/timetable.py), the slot merger  *)
(* of the /get_time_table route, the weekly table builder and the calendar *)
(* projector (extract/extract_table.py).                                   *)
(*                                                                         *)
(* Strings are sequences of one-character atoms, so that split, replace    *)
(* and join are computed as Python computes them.                          *)
(***************************************************************************)
EXTENDS Integers, Sequences, FiniteSets, TLC

VARIABLES
  \* ---- the HTTP service (api/routes/timetable.py) and the redis store
  cache,        \* redis: a function from the stored keys to the stored tables
  request,      \* the TimeTableRequest being served, or None
  queried,      \* the key the last request passed to r.get, or None
  response,     \* the outcome of the last request, or None
  \* ---- create_cache_key_from_parameters applied to drawn inputs
  kin,          \* the drawn inputs [filename, cp1, cp2]
  kout,         \* the keys computed from them, or None
  \* ---- the slot-merging loop of the /get_time_table route, one day
  day_items,    \* day.items(): the (label, value) pairs in column order
  mi,           \* number of pairs already consumed by the loop
  current_slot, \* the open block, or None
  day_data,     \* the blocks emitted so far
  mpc,          \* "loop" | "done"
  \* ---- extract.get_time_table and the projection of its records
  daily_tables, \* the per-sheet tables of _get_all_daily_tables, in file order
  columns,      \* the column layout selected, or <<>>
  final_df,     \* the weekly table under construction
  ei,           \* number of sheets already merged into final_df
  table_data,   \* the day-block projection, once made
  raised,       \* the exception raised, if any
  epc,          \* "start" | "fill" | "built" | "projected" | "raised"
  \* ---- extract.generate_calendar
  timetable,    \* the day-blocked timetable passed in
  start_date,   \* the first date (a day ordinal, as date.toordinal())
  end_date,     \* the last date
  current_date, \* the date the while loop is at
  cal,          \* the events added to the Calendar so far
  ics,          \* the events written to class_schedule.ics, or NoFile
  cpc           \* "loop" | "written" | "raised"

svcVars   == <<cache, request, queried, response>>
keyVars   == <<kin, kout>>
mergeVars == <<day_items, mi, current_slot, day_data, mpc>>
extVars   == <<daily_tables, columns, final_df, ei, table_data, raised, epc>>
calVars   == <<timetable, start_date, end_date, current_date, cal, ics, cpc>>
vars      == <<svcVars, keyVars, mergeVars, extVars, calVars>>

None == [none |-> TRUE]             \* Python's None / JSON null as a value
Str(s) == [str |-> s]               \* a string as a value
NoKey      == <<>>                  \* no key yet (a key always holds a "-")
NoTable    == [kind |-> "None"]     \* r.get found nothing
NoResponse == [kind |-> "none"]     \* no request served yet
NoRequest  == [kind |-> "none"]
NoError    == [kind |-> "none"]     \* no exception raised
NoFile     == [written |-> FALSE]  \* class_schedule.ics not written
NoSlot     == <<>>                  \* current_slot = None; an open block b is <<b>>

(***************************************************************************)
(* Bounds                                                                  *)
(***************************************************************************)
MaxFile     == 2    \* longest filename drawn
MaxPattern  == 3    \* longest class pattern drawn
MaxSlots    == 3    \* longest day (number of timeslot columns) drawn
MaxSheets   == 2    \* most sheets in a workbook drawn
MaxEntries  == 2    \* most day entries in a timetable drawn
MaxDate     == 8    \* latest date drawn (day ordinal)

(***************************************************************************)
(* Strings                                                                 *)
(***************************************************************************)
Chars == {"E", " ", "."}

StringsUpTo(n) == UNION {[1..k -> Chars] : k \in 0..n}

Ext == <<".", "x", "l", "s", "x">>      \* ".xlsx"

\* s.replace(old, ""), old a single character
RECURSIVE Remove(_, _)
Remove(s, ch) ==
  IF s = <<>> THEN <<>>
  ELSE IF Head(s) = ch THEN Remove(Tail(s), ch)
       ELSE <<Head(s)>> \o Remove(Tail(s), ch)

\* s.split(sep), sep a single character: the list of the parts
RECURSIVE Split(_, _)
Split(s, sep) ==
  IF s = <<>> THEN << <<>> >>
  ELSE LET rest == Split(Tail(s), sep) IN
       IF Head(s) = sep THEN << <<>> >> \o rest
       ELSE << <<Head(s)>> \o Head(rest) >> \o Tail(rest)

\* sep.join(parts), sep a single character
RECURSIVE Join(_, _)
Join(parts, sep) ==
  IF parts = <<>> THEN <<>>
  ELSE IF Len(parts) = 1 THEN Head(parts)
       ELSE Head(parts) \o <<sep>> \o Join(Tail(parts), sep)

(***************************************************************************)
(* api/config/redis_config.py                                              *)
(***************************************************************************)
\* Faulty variant: keeps the spaces of the class pattern.
create_cache_key_keep_spaces(filename, class_pattern) ==
  Split(filename, ".")[1] \o <<"-">> \o class_pattern

create_cache_key_from_parameters(filename, class_pattern) ==
  Split(filename, ".")[1] \o <<"-">> \o Remove(class_pattern, " ")

\* r.get(create_cache_key_from_parameters(filename, class_pattern))
get_table_from_cache(store, filename, class_pattern) ==
  LET key == create_cache_key_from_parameters(filename, class_pattern) IN
  IF key \in DOMAIN store THEN store[key] ELSE NoTable

\* r.set(create_cache_key_from_parameters(filename, class_pattern), table)
add_table_to_cache(store, table, filename, class_pattern) ==
  LET key == create_cache_key_from_parameters(filename, class_pattern) IN
  [k \in DOMAIN store \cup {key} |-> IF k = key THEN table ELSE store[k]]

(***************************************************************************)
(* SlotMerger: the loop body of the /get_time_table route                  *)
(* (api/routes/timetable.py, lines 80-98)                                  *)
(***************************************************************************)
\* Faulty variant: puts a label that has a single part into start, not into end.
split_label_single_part_as_start(key) ==
  LET time_parts == Split(key, "-") IN
  IF Len(time_parts) = 2
  THEN [start |-> time_parts[1], end |-> time_parts[2]]
  ELSE IF Len(time_parts) = 1
       THEN [start |-> time_parts[1], end |-> <<>>]
       ELSE [start |-> Join(SubSeq(time_parts, 1, Len(time_parts) - 1), "-"),
             end   |-> time_parts[Len(time_parts)]]

\* lines 84-89: the (start, end) of a timeslot label
split_label(key) ==
  LET time_parts == Split(key, "-") IN
  IF Len(time_parts) = 2
  THEN [start |-> time_parts[1], end |-> time_parts[2]]
  ELSE [start |-> Join(SubSeq(time_parts, 1, Len(time_parts) - 1), "-"),
        end   |-> time_parts[Len(time_parts)]]

\* Faulty variant: extends the open block on equal values alone.
merge_slot_ignoring_end(cur, data, key, value) ==
  LET se == split_label(key) IN
  IF cur # NoSlot /\ cur[1].value = value
  THEN [current_slot |-> <<[cur[1] EXCEPT !.end = se.end]>>, day_data |-> data]
  ELSE [current_slot |-> <<[start |-> se.start, end |-> se.end, value |-> value]>>,
        day_data     |-> IF cur # NoSlot THEN Append(data, cur[1]) ELSE data]

\* Faulty variant: never extends the open block.
merge_slot_never_extends(cur, data, key, value) ==
  LET se == split_label(key) IN
  [current_slot |-> <<[start |-> se.start, end |-> se.end, value |-> value]>>,
   day_data     |-> IF cur # NoSlot THEN Append(data, cur[1]) ELSE data]

\* lines 83-95: one iteration of the inner loop, on the pair (key, value)
merge_slot(cur, data, key, value) ==
  LET se == split_label(key) IN
  IF cur # NoSlot /\ cur[1].value = value /\ cur[1].end = se.start
  THEN [current_slot |-> <<[cur[1] EXCEPT !.end = se.end]>>, day_data |-> data]
  ELSE [current_slot |-> <<[start |-> se.start, end |-> se.end, value |-> value]>>,
        day_data     |-> IF cur # NoSlot THEN Append(data, cur[1]) ELSE data]

\* lines 96-97: the open block is emitted after the last pair
close_day(cur, data) == IF cur # NoSlot THEN Append(data, cur[1]) ELSE data

\* lines 81-97 for one record: the blocks of a day
RECURSIVE merge_from(_, _, _)
merge_from(cur, data, items) ==
  IF items = <<>> THEN close_day(cur, data)
  ELSE LET r == merge_slot(cur, data, Head(items).key, Head(items).value) IN
       merge_from(r.current_slot, r.day_data, Tail(items))

merge_day(items) == merge_from(NoSlot, <<>>, items)

(***************************************************************************)
(* api/routes/timetable.py: get_json_table                                 *)
(***************************************************************************)
\* The bindings of the name get_time_table in the module's namespace, in the
\* order the module body makes them: the import of the extractor (line 6),
\* then the route coroutine function (lines 63-64).
module_bindings ==
  << [name |-> "get_time_table", kind |-> "extractor", params |-> 2],
     [name |-> "get_time_table", kind |-> "route",     params |-> 1] >>

\* A call looks the global name up when it runs: the last binding made.
lookup_global(name) ==
  LET idx == {i \in 1..Len(module_bindings) : module_bindings[i].name = name}
      last == CHOOSE i \in idx : \A j \in idx : j <= i
  IN module_bindings[last]

\* os.path.join(DRAFTS_FOLDER, request.filename), line 49
drafts_path(filename) == <<"drafts", "/">> \o filename

\* The table extract.get_time_table(path, class_pattern).to_json() yields:
\* a function of the file read (path + ".xlsx", line 81 of extract_table.py)
\* and of the class pattern.
extracted_table(path, class_pattern) ==
  [kind |-> "table", file |-> path \o Ext, class_pattern |-> class_pattern]

\* get_time_table(filename, request.class_pattern).to_json(...), lines 54-56
call_get_time_table(path, class_pattern) ==
  LET f == lookup_global("get_time_table") IN
  IF f.params # 2 THEN [kind |-> "TypeError"]
  ELSE IF f.kind = "extractor" THEN extracted_table(path, class_pattern)
       ELSE [kind |-> "AttributeError"]       \* a coroutine has no to_json

\* The key of the lookup at line 51: the arguments are passed by position,
\* (class_pattern, filename), to the parameters (filename, class_pattern).
query_key(req) == create_cache_key_from_parameters(req.class_pattern, req.filename)

\* The key of the store at lines 57-59: the arguments are passed by keyword.
store_key(req) == create_cache_key_from_parameters(req.filename, req.class_pattern)

\* lines 39-61: the outcome and the store after one call
get_json_table(store, req) ==
  LET filename == drafts_path(req.filename)
      table    == get_table_from_cache(store, req.class_pattern, req.filename)
  IN IF table = NoTable
     THEN LET computed == call_get_time_table(filename, req.class_pattern) IN
          IF computed.kind # "table"
          THEN [store |-> store, result |-> computed, hit |-> FALSE]
          ELSE [store  |-> add_table_to_cache(store, computed, req.filename,
                                               req.class_pattern),
                result |-> computed, hit |-> FALSE]
     ELSE [store |-> store, result |-> table, hit |-> TRUE]

Requests == [filename : StringsUpTo(MaxFile), class_pattern : StringsUpTo(MaxPattern)]

SvcIdle ==
  /\ cache = <<>>
  /\ request = NoRequest
  /\ queried = NoKey
  /\ response = NoResponse

\* One call of get_json_table, for any request
GetJsonTable ==
  \E req \in Requests :
    LET r == get_json_table(cache, req) IN
    /\ request' = req
    /\ queried' = query_key(req)
    /\ cache' = r.store
    /\ response' = [kind |-> r.result.kind, table |-> r.result, hit |-> r.hit]
    /\ UNCHANGED <<keyVars, mergeVars, extVars, calVars>>

(***************************************************************************)
(* api/routes/timetable.py: the /download endpoint                         *)
(***************************************************************************)
\* lines 131-161: the outcome and the store after one call.  The document is
\* built and returned inside the branch of the cache miss (lines 143-161);
\* after a hit the function ends without a return statement, which returns
\* None.
download_time_table_endpoint(store, req) ==
  LET filename == drafts_path(req.filename)
      table    == get_table_from_cache(store, req.class_pattern, req.filename)
  IN IF table = NoTable
     THEN LET computed == call_get_time_table(filename, req.class_pattern) IN
          IF computed.kind # "table"
          THEN [store |-> store, result |-> computed, hit |-> FALSE]
          ELSE [store  |-> add_table_to_cache(store, computed, req.filename,
                                               req.class_pattern),
                result |-> [kind |-> "document", table |-> computed],
                hit    |-> FALSE]
     ELSE [store |-> store, result |-> [kind |-> "None"], hit |-> TRUE]

\* The requests whose table an earlier writer has left in redis
CachedRequests == [filename : {<<>>, <<"E">>}, class_pattern : {<<>>, <<"E">>, <<"E", " ">>}]

\* redis as the service finds it: empty, or holding the table of one request
\* under the key add_table_to_cache gives it
StoresFound ==
  {<<>>} \cup
  { add_table_to_cache(<<>>,
                       extracted_table(drafts_path(r.filename), r.class_pattern),
                       r.filename, r.class_pattern) : r \in CachedRequests }

DownloadInit ==
  /\ cache \in StoresFound
  /\ request = NoRequest
  /\ queried = NoKey
  /\ response = NoResponse

\* One POST /download, for any request
Download ==
  \E req \in Requests :
    LET r == download_time_table_endpoint(cache, req) IN
    /\ request' = req
    /\ queried' = query_key(req)
    /\ cache' = r.store
    /\ response' = [kind |-> r.result.kind, hit |-> r.hit]
    /\ UNCHANGED <<keyVars, mergeVars, extVars, calVars>>

(***************************************************************************)
(* create_cache_key_from_parameters on drawn inputs                        *)
(***************************************************************************)
NoKeys == [computed |-> FALSE]

KeyIdle ==
  /\ kin = [filename |-> <<>>, cp1 |-> <<>>, cp2 |-> <<>>]
  /\ kout = NoKeys

KeyInit ==
  /\ kin \in [filename : StringsUpTo(MaxFile), cp1 : StringsUpTo(MaxPattern),
              cp2 : StringsUpTo(MaxPattern)]
  /\ kout = NoKeys

\* The keys of (filename, cp1), (filename, cp2) and (filename + ".xlsx", cp1)
ComputeKeys ==
  /\ kout = NoKeys
  /\ kout' = [computed |-> TRUE,
              k1  |-> create_cache_key_from_parameters(kin.filename, kin.cp1),
              k2  |-> create_cache_key_from_parameters(kin.filename, kin.cp2),
              k1x |-> create_cache_key_from_parameters(kin.filename \o Ext, kin.cp1)]
  /\ UNCHANGED <<kin, svcVars, mergeVars, extVars, calVars>>

(***************************************************************************)
(* The slot-merging loop on a drawn day                                    *)
(***************************************************************************)
T7  == <<"7:00">>
T9  == <<"9:00">>
T11 == <<"11:00">>
T1  == <<"1:00">>
Dash == <<"-">>

\* The timeslot labels drawn: three consecutive slots, the key "None" of a
\* column without a label, a label with two "-", and labels with an empty part.
Labels ==
  { T7 \o Dash \o T9, T9 \o Dash \o T11, T11 \o Dash \o T1,
    <<"None">>, T9 \o Dash \o T11 \o Dash \o T1, T7 \o Dash, Dash \o T9 }

VA == Str(<<"A">>)
VB == Str(<<"B">>)

Values == {VA, VB, None}

Items == [key : Labels, value : Values]

\* day.items() of a JSON object: the keys are distinct
DistinctKeys(items) ==
  \A i, j \in 1..Len(items) : i # j => items[i].key # items[j].key

Days == {items \in UNION {[1..k -> Items] : k \in 0..MaxSlots} : DistinctKeys(items)}

MergeIdle ==
  /\ day_items = <<>>
  /\ mi = 0
  /\ current_slot = NoSlot
  /\ day_data = <<>>
  /\ mpc = "idle"

MergeInit ==
  /\ day_items \in Days
  /\ mi = 0
  /\ current_slot = NoSlot      \* line 82
  /\ day_data = <<>>            \* line 81
  /\ mpc = "loop"

\* lines 83-95: one iteration
MergeIter ==
  /\ mpc = "loop"
  /\ mi < Len(day_items)
  /\ LET r == merge_slot(current_slot, day_data,
                         day_items[mi + 1].key, day_items[mi + 1].value) IN
     /\ current_slot' = r.current_slot
     /\ day_data' = r.day_data
  /\ mi' = mi + 1
  /\ UNCHANGED <<day_items, mpc, svcVars, keyVars, extVars, calVars>>

\* lines 96-97: after the last pair
MergeFinish ==
  /\ mpc = "loop"
  /\ mi = Len(day_items)
  /\ day_data' = close_day(current_slot, day_data)
  /\ mpc' = "done"
  /\ UNCHANGED <<day_items, mi, current_slot, svcVars, keyVars, extVars,
                 calVars>>

(***************************************************************************)
(* WeeklyTableBuilder: extract/extract_table.py, get_time_table            *)
(***************************************************************************)
Range(f) == {f[i] : i \in DOMAIN f}

Lowers == <<"a","b","c","d","e","f","g","h","i","j","k","l","m",
            "n","o","p","q","r","s","t","u","v","w","x","y","z">>
Uppers == <<"A","B","C","D","E","F","G","H","I","J","K","L","M",
            "N","O","P","Q","R","S","T","U","V","W","X","Y","Z">>

IsLetter(c) == c \in Range(Lowers) \cup Range(Uppers)
LetterNo(c) == CHOOSE i \in 1..26 : Lowers[i] = c \/ Uppers[i] = c
ToUpper(c)  == IF IsLetter(c) THEN Uppers[LetterNo(c)] ELSE c
ToLower(c)  == IF IsLetter(c) THEN Lowers[LetterNo(c)] ELSE c

\* str.title(): a letter that follows no letter is upper-cased, any other
\* letter lower-cased
Title(s) ==
  [i \in 1..Len(s) |->
     IF i = 1 \/ ~IsLetter(s[i - 1]) THEN ToUpper(s[i]) ELSE ToLower(s[i])]

Monday    == <<"M","o","n","d","a","y">>
Tuesday   == <<"T","u","e","s","d","a","y">>
Wednesday == <<"W","e","d","n","e","s","d","a","y">>
Thursday  == <<"T","h","u","r","s","d","a","y">>
Friday    == <<"F","r","i","d","a","y">>

\* line 122 (and line 132, and line 75 of the route)
days == <<Monday, Tuesday, Wednesday, Thursday, Friday>>

IsSpace(c) == c = " "

\* c.strip()
RECURSIVE LStrip(_)
LStrip(s) == IF s # <<>> /\ IsSpace(Head(s)) THEN LStrip(Tail(s)) ELSE s

RECURSIVE RStrip(_)
RStrip(s) ==
  IF s # <<>> /\ IsSpace(s[Len(s)]) THEN RStrip(SubSeq(s, 1, Len(s) - 1)) ELSE s

\* re.sub(r"\s+", " ", s)
RECURSIVE CollapseSpaces(_)
CollapseSpaces(s) ==
  IF s = <<>> THEN <<>>
  ELSE IF IsSpace(Head(s))
       THEN <<" ">> \o CollapseSpaces(LStrip(s))
       ELSE <<Head(s)>> \o CollapseSpaces(Tail(s))

\* lines 140-146: the text of a cell from the present (class, classroom)
\* entries of a period, in row order
cell_text(entries) ==
  Join([i \in 1..Len(entries) |->
          CollapseSpaces(RStrip(LStrip(entries[i].class)))
            \o <<" ", "(">> \o entries[i].room \o <<")">>],
       "\n")

\* The weekly table: its index, its columns and its cells
NoDf == [index |-> <<>>, columns |-> <<>>, cell |-> <<>>]

\* lines 130-133: pd.DataFrame(columns=columns, index=[Monday .. Friday])
empty_df(cols) ==
  [index |-> days, columns |-> cols,
   cell |-> [rc \in Range(days) \X Range(cols) |-> None]]

\* Faulty variant: drops a value whose row or column the table does not have.
set_cell_no_enlargement(df, row, col, v) ==
  IF row \in Range(df.index) /\ col \in Range(df.columns)
  THEN [df EXCEPT !.cell[<<row, col>>] = v]
  ELSE df

\* line 147, final_df.loc[day, period] = v: a row label or a column label the
\* table does not have is appended to it (setting with enlargement)
set_cell(df, row, col, v) ==
  LET index2 == IF row \in Range(df.index) THEN df.index ELSE Append(df.index, row)
      cols2  == IF col \in Range(df.columns) THEN df.columns
                ELSE Append(df.columns, col)
  IN [index |-> index2, columns |-> cols2,
      cell |-> [rc \in Range(index2) \X Range(cols2) |->
                  IF rc = <<row, col>> THEN v
                  ELSE IF rc \in DOMAIN df.cell THEN df.cell[rc] ELSE None]]

\* lines 136-147 for one daily table, its periods from position k on
RECURSIVE fill_periods(_, _, _, _)
fill_periods(df, day, table, k) ==
  IF k > Len(table.columns) THEN df
  ELSE LET period  == table.columns[k]
           classes == table.entries[period]
       IN IF classes # <<>>
          THEN fill_periods(set_cell(df, day, period, Str(cell_text(classes))),
                            day, table, k + 1)
          ELSE fill_periods(df, day, table, k + 1)

\* lines 135-147 for one (day, table) of daily_tables
fill_sheet(df, sheet) == fill_periods(df, sheet.title, sheet, 1)

\* Faulty variant: takes the layout of the last weekday sheet.
first_weekday_columns_last(tables) ==
  LET idx == {i \in 1..Len(tables) : Title(tables[i].title) \in Range(days)} IN
  IF idx = {} THEN [found |-> FALSE]
  ELSE [found |-> TRUE,
        columns |-> tables[CHOOSE i \in idx : \A j \in idx : j <= i].columns]

\* lines 123-128: the for/break/else over daily_tables.items()
RECURSIVE first_weekday_columns(_)
first_weekday_columns(tables) ==
  IF tables = <<>> THEN [found |-> FALSE]
  ELSE IF Title(Head(tables).title) \in Range(days)
       THEN [found |-> TRUE, columns |-> Head(tables).columns]
       ELSE first_weekday_columns(Tail(tables))

RECURSIVE fill_all(_, _)
fill_all(df, tables) ==
  IF tables = <<>> THEN df ELSE fill_all(fill_sheet(df, Head(tables)), Tail(tables))

\* lines 120-149 on the daily tables: the weekly table, or the ValueError
get_time_table(tables) ==
  LET sel == first_weekday_columns(tables) IN
  IF ~sel.found THEN [kind |-> "ValueError", days |-> days]
  ELSE [kind |-> "table", df |-> fill_all(empty_df(sel.columns), tables)]

\* to_json(orient="records") and json.loads: one record per row, in index
\* order, its (key, value) pairs in column order
json_records(df) ==
  [r \in 1..Len(df.index) |->
     [c \in 1..Len(df.columns) |->
        [key |-> df.columns[c], value |-> df.cell[<<df.index[r], df.columns[c]>>]]]]

\* lines 79-100 of the route on json_data: days[index] raises IndexError past
\* the fifth record
project_days(json_data) ==
  IF Len(json_data) > Len(days) THEN [kind |-> "IndexError"]
  ELSE [kind |-> "ok",
        table_data |-> [i \in 1..Len(json_data) |->
                          [day |-> days[i], data |-> merge_day(json_data[i])]]]

\* ---- the daily tables drawn
P1 == T7 \o Dash \o T9
P2 == T9 \o Dash \o T11

Room1 == <<"R","1">>
Room2 == <<"R","2">>

\* the present entries a period can have: none, or the matching classes
PeriodEntries(p) ==
  IF p = P1
  THEN { <<>>, <<[class |-> <<" ","C"," "," ","1"," ">>, room |-> Room1]>> }
  ELSE { <<>>, <<[class |-> <<"C"," ","1">>, room |-> Room1],
                 [class |-> <<"C","2">>, room |-> Room2]>> }

Layouts == { <<P1, P2>>, <<P1>>, <<P2>> }

SheetTitles ==
  { Monday, Tuesday, <<"M","O","N","D","A","Y">>,
    <<"S","u","m","m","a","r","y">> }

Lower(s) == [i \in 1..Len(s) |-> ToLower(s[i])]

Sheets ==
  UNION { UNION { { [title |-> t, columns |-> cols, entries |-> e] :
                      e \in [Range(cols) -> PeriodEntries(P1) \cup PeriodEntries(P2)] }
                  : cols \in Layouts } : t \in SheetTitles }

WellFormedSheet(sh) ==
  \A p \in Range(sh.columns) : sh.entries[p] \in PeriodEntries(p)

\* the sheet names of a workbook differ, whatever the case of their letters
DistinctTitles(tables) ==
  \A i, j \in 1..Len(tables) :
    i # j => Lower(tables[i].title) # Lower(tables[j].title)

Workbooks ==
  { tables \in UNION {[1..k -> {sh \in Sheets : WellFormedSheet(sh)}] : k \in 0..MaxSheets} :
      DistinctTitles(tables) }

ExtIdle ==
  /\ daily_tables = <<>>
  /\ columns = <<>>
  /\ final_df = NoDf
  /\ ei = 0
  /\ table_data = <<>>
  /\ raised = NoError
  /\ epc = "idle"

ExtInit ==
  /\ daily_tables \in Workbooks
  /\ columns = <<>>
  /\ final_df = NoDf
  /\ ei = 0
  /\ table_data = <<>>
  /\ raised = NoError
  /\ epc = "start"

\* lines 122-133: the column layout and the empty weekly table, or ValueError
SelectColumns ==
  /\ epc = "start"
  /\ LET sel == first_weekday_columns(daily_tables) IN
     IF sel.found
     THEN /\ columns' = sel.columns
          /\ final_df' = empty_df(sel.columns)
          /\ epc' = "fill"
          /\ UNCHANGED raised
     ELSE /\ raised' = [kind |-> "ValueError", days |-> days]    \* line 128
          /\ epc' = "raised"
          /\ UNCHANGED <<columns, final_df>>
  /\ UNCHANGED <<daily_tables, ei, table_data, svcVars, keyVars, mergeVars, calVars>>

\* lines 135-147: one iteration of the loop over daily_tables.items()
FillSheet ==
  /\ epc = "fill"
  /\ ei < Len(daily_tables)
  /\ final_df' = fill_sheet(final_df, daily_tables[ei + 1])
  /\ ei' = ei + 1
  /\ UNCHANGED <<daily_tables, columns, table_data, raised, epc,
                 svcVars, keyVars, mergeVars, calVars>>

\* line 149: return final_df
ReturnTable ==
  /\ epc = "fill"
  /\ ei = Len(daily_tables)
  /\ epc' = "built"
  /\ UNCHANGED <<daily_tables, columns, final_df, ei, table_data, raised,
                 svcVars, keyVars, mergeVars, calVars>>

\* lines 75-100 of the route on the records of the weekly table
Project ==
  /\ epc = "built"
  /\ LET r == project_days(json_records(final_df)) IN
     IF r.kind = "ok"
     THEN /\ table_data' = r.table_data
          /\ epc' = "projected"
          /\ UNCHANGED raised
     ELSE /\ raised' = r
          /\ epc' = "raised"
          /\ UNCHANGED table_data
  /\ UNCHANGED <<daily_tables, columns, final_df, ei, svcVars, keyVars, mergeVars,
                 calVars>>

(***************************************************************************)
(* CalendarProjector: extract/extract_table.py, generate_calendar          *)
(***************************************************************************)
Saturday == <<"S","a","t","u","r","d","a","y">>
Sunday   == <<"S","u","n","d","a","y">>

WeekdayNames == <<Monday, Tuesday, Wednesday, Thursday, Friday, Saturday, Sunday>>

\* line 183, current_date.strftime("%A"): date.weekday() is
\* (toordinal() + 6) % 7, Monday being 0
day_name(date) == WeekdayNames[((date + 6) % 7) + 1]

Digits == <<"0","1","2","3","4","5","6","7","8","9">>
IsDigit(c)  == c \in Range(Digits)
DigitVal(c) == (CHOOSE i \in 1..10 : Digits[i] = c) - 1

\* one or two digits as a number, or -1
Number(part) ==
  IF Len(part) \in {1, 2} /\ \A i \in 1..Len(part) : IsDigit(part[i])
  THEN IF Len(part) = 1 THEN DigitVal(part[1])
       ELSE 10 * DigitVal(part[1]) + DigitVal(part[2])
  ELSE -1

\* lines 192-193, datetime.strptime(s, "%H:%M"): the hour and the minute, or
\* the ValueError of a string that does not match
strptime_HM(s) ==
  LET parts == Split(s, ":") IN
  IF /\ Len(parts) = 2
     /\ Number(parts[1]) \in 0..23
     /\ Number(parts[2]) \in 0..59
  THEN [ok |-> TRUE, hour |-> Number(parts[1]), minute |-> Number(parts[2])]
  ELSE [ok |-> FALSE]

\* value.replace("\n", " "), line 195
ReplaceNewlines(s) == [i \in 1..Len(s) |-> IF s[i] = "\n" THEN " " ELSE s[i]]

\* the truth value of a block's field: a non-empty string
Truthy(v) == v # None /\ v.str # <<>>

\* lines 187-191
block_qualifies(class_info) ==
  Truthy(class_info.start) /\ Truthy(class_info.end) /\ Truthy(class_info.value)

\* lines 192-208: the event of a qualifying block on a date, or ValueError
make_event(date, class_info) ==
  LET start_time == strptime_HM(class_info.start.str)
      end_time   == strptime_HM(class_info.end.str)
  IN IF ~start_time.ok \/ ~end_time.ok THEN [kind |-> "ValueError"]
     ELSE [kind    |-> "event",
           summary |-> ReplaceNewlines(class_info.value.str),
           dtstart |-> [date |-> date, hour |-> start_time.hour,
                        minute |-> start_time.minute],
           dtend   |-> [date |-> date, hour |-> end_time.hour,
                        minute |-> end_time.minute]]

\* lines 186-208: the blocks of one day entry, from block j on
RECURSIVE add_blocks(_, _, _, _)
add_blocks(events, date, data, j) ==
  IF j > Len(data) THEN [kind |-> "ok", events |-> events]
  ELSE IF block_qualifies(data[j])
       THEN LET e == make_event(date, data[j]) IN
            IF e.kind = "ValueError" THEN e
            ELSE add_blocks(Append(events, e), date, data, j + 1)
       ELSE add_blocks(events, date, data, j + 1)

\* lines 184-208: every day entry of the timetable, from entry i on; there is
\* no break after a matching entry
RECURSIVE add_days(_, _, _, _)
add_days(events, date, data, i) ==
  IF i > Len(data) THEN [kind |-> "ok", events |-> events]
  ELSE IF data[i].day = day_name(date)
       THEN LET r == add_blocks(events, date, data[i].data, 1) IN
            IF r.kind = "ValueError" THEN r
            ELSE add_days(r.events, date, data, i + 1)
       ELSE add_days(events, date, data, i + 1)

\* Faulty variant: leaves the end date out.
loop_continues_before_end(cur, last) == cur < last

\* line 182: while current_date <= end_date
loop_continues(cur, last) == cur <= last

\* ---- the timetables drawn
H0700 == Str(<<"7",":","0","0">>)
H0900 == Str(<<"9",":","0","0">>)
H1100 == Str(<<"1","1",":","0","0">>)

ValidBlock == [start |-> H0700, end |-> H0900, value |-> Str(<<"A","\n","B">>)]
LaterBlock == [start |-> H0900, end |-> H1100, value |-> Str(<<"C">>)]
NullBlock  == [start |-> H0900, end |-> H1100, value |-> None]
\* the gap placeholder of the sample data, line 235
GapBlock   == [start |-> Str(<<>>), end |-> Str(<<"N","o","n","e">>), value |-> None]
\* a block that qualifies and whose end is no time
BadBlock   == [start |-> H0900, end |-> Str(<<"N","o","n","e">>), value |-> Str(<<"C">>)]

DayData ==
  { <<>>, <<ValidBlock>>, <<ValidBlock, GapBlock, LaterBlock>>,
    <<NullBlock, LaterBlock>>, <<ValidBlock, BadBlock>> }

DayEntries == [day : {Monday, Tuesday}, data : DayData]

Timetables == UNION {[1..k -> DayEntries] : k \in 0..MaxEntries}

CalIdle ==
  /\ timetable = <<>>
  /\ start_date = 0
  /\ end_date = 0
  /\ current_date = 0
  /\ cal = <<>>
  /\ ics = NoFile
  /\ cpc = "idle"

\* lines 174-181
CalInit ==
  /\ timetable \in Timetables
  /\ start_date \in 1..MaxDate
  /\ end_date \in 1..MaxDate
  /\ current_date = start_date
  /\ cal = <<>>
  /\ ics = NoFile
  /\ cpc = "loop"

\* lines 182-209: one iteration of the while loop, or the ValueError of it
CalDate ==
  /\ cpc = "loop"
  /\ loop_continues(current_date, end_date)
  /\ LET r == add_days(cal, current_date, timetable, 1) IN
     IF r.kind = "ok"
     THEN /\ cal' = r.events
          /\ current_date' = current_date + 1
          /\ cpc' = "loop"
     ELSE /\ cpc' = "raised"
          /\ UNCHANGED <<cal, current_date>>
  /\ UNCHANGED <<timetable, start_date, end_date, ics, svcVars, keyVars,
                 mergeVars, extVars>>

\* lines 211-212: the calendar is written once the loop is over
CalWrite ==
  /\ cpc = "loop"
  /\ ~loop_continues(current_date, end_date)
  /\ ics' = [written |-> TRUE, events |-> cal]
  /\ cpc' = "written"
  /\ UNCHANGED <<timetable, start_date, end_date, current_date, cal, svcVars,
                 keyVars, mergeVars, extVars>>

(***************************************************************************)
(* Specifications                                                          *)
(***************************************************************************)
Init == SvcIdle /\ KeyIdle /\ MergeIdle /\ ExtIdle /\ CalIdle
Next == GetJsonTable
Spec == Init /\ [][Next]_vars

InitKey == SvcIdle /\ KeyInit /\ MergeIdle /\ ExtIdle /\ CalIdle
NextKey == ComputeKeys
KeySpec == InitKey /\ [][NextKey]_vars

InitMerge == SvcIdle /\ KeyIdle /\ MergeInit /\ ExtIdle /\ CalIdle
NextMerge == MergeIter \/ MergeFinish
MergeSpec == InitMerge /\ [][NextMerge]_vars

InitExtract == SvcIdle /\ KeyIdle /\ MergeIdle /\ ExtInit /\ CalIdle
NextExtract == SelectColumns \/ FillSheet \/ ReturnTable \/ Project
ExtractSpec == InitExtract /\ [][NextExtract]_vars

InitCal == SvcIdle /\ KeyIdle /\ MergeIdle /\ ExtIdle /\ CalInit
NextCal == CalDate \/ CalWrite
CalSpec == InitCal /\ [][NextCal]_vars

InitDownload == DownloadInit /\ KeyIdle /\ MergeIdle /\ ExtIdle /\ CalIdle
NextDownload == Download
DownloadSpec == InitDownload /\ [][NextDownload]_vars

(***************************************************************************)
(* Claims on the cache (Spec)                                              *)
(***************************************************************************)
\* C1: the cache is a pure accelerator: every call of get_json_table returns
\* the table that extraction produces for that same (filename, class_pattern),
\* computed and stored on a miss, read back on a hit.
C1_CachePureAccelerator ==
  request # NoRequest =>
    /\ response.kind = "table"
    /\ response.table =
         extracted_table(drafts_path(request.filename), request.class_pattern)
    /\ ~response.hit => store_key(request) \in DOMAIN cache

\* C2: the key get_json_table queries the cache with is the key it stores the
\* computed table with, namely <filename without extension>-<class_pattern
\* without spaces>.
C2_QueryKeyIsStoreKey ==
  request # NoRequest =>
    /\ queried = store_key(request)
    /\ queried = Split(request.filename, ".")[1] \o <<"-">>
                   \o Remove(request.class_pattern, " ")

(***************************************************************************)
(* Claims on the key construction (KeySpec)                                *)
(***************************************************************************)
DifferOnlyInSpaces(a, b) == a # b /\ Remove(a, " ") = Remove(b, " ")

\* C10 as stated: class patterns that differ only in spaces give different
\* keys, and the filename with and without its extension give the same
\* filename part.
C10_SpacingSignificant ==
  kout.computed =>
    /\ DifferOnlyInSpaces(kin.cp1, kin.cp2) => kout.k1 # kout.k2
    /\ kout.k1x = kout.k1

\* C10 as amended: class patterns that differ only in spaces give the same
\* key (the spaces are removed), and the filename with and without its
\* extension give the same key.
C10_SpacingRemoved ==
  kout.computed =>
    /\ DifferOnlyInSpaces(kin.cp1, kin.cp2) => kout.k1 = kout.k2
    /\ kout.k1x = kout.k1

C10_Witness ==
  /\ kout.computed
  /\ kin.filename = <<"E">>
  /\ kin.cp1 = <<"E", "E">>
  /\ kin.cp2 = <<"E", " ", "E">>
  /\ kout.k1 = <<"E", "-", "E", "E">>

(***************************************************************************)
(* Claims on the slot merger (MergeSpec)                                   *)
(***************************************************************************)
SlotStart(items, k) == split_label(items[k].key).start
SlotEnd(items, k)   == split_label(items[k].key).end

\* slot k+1 continues slot k: equal values and end string = start string
Continues(items, k) ==
  /\ items[k].value = items[k + 1].value
  /\ SlotEnd(items, k) = SlotStart(items, k + 1)

\* The reference: the blocks are the maximal runs of continuing slots.
RunStarts(items) ==
  {i \in 1..Len(items) : i = 1 \/ ~Continues(items, i - 1)}

NthStart(items, j) ==
  CHOOSE s \in RunStarts(items) :
    Cardinality({t \in RunStarts(items) : t < s}) = j - 1

RunEnd(items, j) ==
  IF j = Cardinality(RunStarts(items)) THEN Len(items)
  ELSE NthStart(items, j + 1) - 1

ReferenceBlocks(items) ==
  [j \in 1..Cardinality(RunStarts(items)) |->
     [start |-> SlotStart(items, NthStart(items, j)),
      end   |-> SlotEnd(items, RunEnd(items, j)),
      value |-> items[NthStart(items, j)].value]]

\* C3: the blocks the loop emits for a day are the reference's: a slot
\* extends the open block iff the values are equal and the block's end string
\* equals the slot's start string; otherwise the block is emitted and a new
\* one opened; the last open block is emitted at the end.
C3_MergeEqualsReference ==
  mpc = "done" => day_data = ReferenceBlocks(day_items)

\* [(7:00,9:00,A),(9:00,11:00,A),(11:00,1:00,B)] gives
\* [{7:00,11:00,A},{11:00,1:00,B}]
C3_Witness ==
  /\ mpc = "done"
  /\ day_items = << [key |-> T7 \o Dash \o T9,  value |-> VA],
                    [key |-> T9 \o Dash \o T11, value |-> VA],
                    [key |-> T11 \o Dash \o T1, value |-> VB] >>
  /\ day_data = << [start |-> T7,  end |-> T11, value |-> VA],
                   [start |-> T11, end |-> T1,  value |-> VB] >>

\* the emitted blocks as slots labelled start-end
Relabel(blocks) ==
  [j \in 1..Len(blocks) |->
     [key |-> blocks[j].start \o Dash \o blocks[j].end, value |-> blocks[j].value]]

\* C4: merging is idempotent and minimal: the emitted blocks, fed back as slots
\* labelled start-end, merge to the same blocks, and no two consecutive
\* emitted blocks have equal values with the first's end equal to the
\* second's start.
C4_MergeIdempotentMinimal ==
  mpc = "done" =>
    /\ merge_day(Relabel(day_data)) = day_data
    /\ \A j \in 1..(Len(day_data) - 1) :
         ~(/\ day_data[j].value = day_data[j + 1].value
           /\ day_data[j].end = day_data[j + 1].start)

C4_Witness ==
  /\ mpc = "done"
  /\ Len(day_items) = 3
  /\ Len(day_data) = 2
  /\ day_data[1].value = day_data[2].value

NoDash(key) == Len(Split(key, "-")) = 1

\* C9 as stated: a label that cannot be decomposed into a start and an end
\* (one with no "-") makes the merge fail with an error.
C9_MalformedLabelFails ==
  \A i \in 1..mi : NoDash(day_items[i].key) => mpc = "error"

\* C9 as amended: a label with no "-" does not fail the merge: it is taken as
\* the empty start and the whole label as end, and merged like any other slot,
\* so the open block then ends with the whole label and, unless it extends a
\* block whose end was empty, starts with the empty string.
C9_LabelWithoutDashDefaulted ==
  /\ mpc \in {"loop", "done"}
  /\ (mi > 0 /\ NoDash(day_items[mi].key)) =>
       /\ current_slot # NoSlot
       /\ current_slot[1].end = day_items[mi].key
       /\ current_slot[1].value = day_items[mi].value
       /\ \/ current_slot[1].start = <<>>
          \/ /\ mi > 1
             /\ SlotEnd(day_items, mi - 1) = <<>>
             /\ day_items[mi - 1].value = day_items[mi].value

\* the gap placeholder {start: "", end: "None", value: None}
C9_Witness ==
  /\ mpc = "done"
  /\ \E j \in 1..Len(day_data) :
       day_data[j] = [start |-> <<>>, end |-> <<"None">>, value |-> None]

(***************************************************************************)
(* Claims on the weekly table (ExtractSpec)                                *)
(***************************************************************************)
IsWeekdaySheet(sh) == Title(sh.title) \in Range(days)

WeekdayIndexes(tables) == {i \in 1..Len(tables) : IsWeekdaySheet(tables[i])}

Failed(kind) == epc = "raised" /\ raised.kind = kind

\* the cell the sheet of a weekday gives at a column: the text of its present
\* entries, or nothing
SheetCell(tables, day, col) ==
  LET idx == {i \in WeekdayIndexes(tables) :
                /\ Title(tables[i].title) = day
                /\ col \in Range(tables[i].columns)
                /\ tables[i].entries[col] # <<>>}
  IN IF idx = {} THEN None
     ELSE Str(cell_text(tables[CHOOSE i \in idx : TRUE].entries[col]))

\* C5: with at least one weekday sheet the weekly table has exactly the rows
\* Monday..Friday and the projection one entry per weekday in that order, each
\* built from the sheet of that weekday; a sheet that is no weekday sheet adds
\* no row, no cell and no entry and does not make the request fail.
C5_FiveDaysExtraSheetsIgnored ==
  WeekdayIndexes(daily_tables) # {} =>
    /\ epc # "raised"
    /\ epc \in {"built", "projected"} =>
         /\ final_df.index = days
         /\ \A rc \in DOMAIN final_df.cell :
              final_df.cell[rc] = SheetCell(daily_tables, rc[1], rc[2])
    /\ epc = "projected" =>
         /\ Len(table_data) = Len(days)
         /\ \A i \in 1..Len(table_data) :
              /\ table_data[i].day = days[i]
              /\ table_data[i].data = merge_day(json_records(final_df)[i])

\* C6: the column layout is that of the first daily table, in file order,
\* whose title in title-case is a weekday name; with no such table extraction
\* raises the ValueError that names the weekday list and builds no table.
C6_ColumnsOfFirstWeekdaySheet ==
  epc # "start" =>
    LET idx == WeekdayIndexes(daily_tables) IN
    IF idx = {}
    THEN /\ Failed("ValueError")
         /\ raised.days = <<Monday, Tuesday, Wednesday, Thursday, Friday>>
         /\ final_df = NoDf
    ELSE /\ ~Failed("ValueError")
         /\ columns = daily_tables[CHOOSE i \in idx : \A j \in idx : i <= j].columns
         /\ SubSeq(final_df.columns, 1, Len(columns)) = columns

C6_Witness ==
  /\ epc = "built"
  /\ Len(daily_tables) = 2
  /\ ~IsWeekdaySheet(daily_tables[1])
  /\ daily_tables[1].columns = <<P1, P2>>
  /\ daily_tables[2].title = <<"M","O","N","D","A","Y">>
  /\ columns = <<P2>>

SheetOrders(n) ==
  {p \in [1..n -> 1..n] : \A i, j \in 1..n : i # j => p[i] # p[j]}

\* the content of a weekly table: its present values, by (day, timeslot)
Content(df) ==
  {<<rc[1], rc[2], df.cell[rc]>> : rc \in {x \in DOMAIN df.cell : df.cell[x] # None}}

\* C7: every order in which the daily tables are supplied gives the same
\* value at every (day, timeslot) cell of the weekly table (and the same
\* failure when no weekday sheet exists).
C7_SheetOrderCommutes ==
  \A p \in SheetOrders(Len(daily_tables)) :
    LET other == get_time_table([i \in 1..Len(daily_tables) |-> daily_tables[p[i]]]) IN
    /\ epc \in {"built", "projected"} =>
         other.kind = "table" /\ Content(other.df) = Content(final_df)
    /\ Failed("ValueError") => other.kind = "ValueError"

C7_Witness ==
  /\ epc = "built"
  /\ Len(daily_tables) = 2
  /\ daily_tables[1].title = Tuesday /\ daily_tables[1].columns = <<P2>>
  /\ daily_tables[2].title = Monday /\ daily_tables[2].columns = <<P1>>
  /\ Cardinality(Content(final_df)) = 2

(***************************************************************************)
(* Claims on the calendar (CalSpec)                                        *)
(***************************************************************************)
NonEmpty(v) == v # None /\ v # Str(<<>>)

LongestData == CHOOSE n \in {Len(d) : d \in DayData} : \A d \in DayData : Len(d) <= n

\* the (date, day entry, block) triples that qualify: the date in the range,
\* the entry's day the date's weekday name, the block's fields non-empty
QualifyingPairs ==
  {t \in (start_date..end_date) \X (1..Len(timetable)) \X (1..LongestData) :
     /\ timetable[t[2]].day = day_name(t[1])
     /\ t[3] <= Len(timetable[t[2]].data)
     /\ LET b == timetable[t[2]].data[t[3]] IN
        NonEmpty(b.start) /\ NonEmpty(b.end) /\ NonEmpty(b.value)}

\* those of the first day entry that matches the date, only
FirstMatchPairs ==
  {t \in QualifyingPairs :
     \A i \in 1..(t[2] - 1) : timetable[i].day # day_name(t[1])}

Before(a, b) ==
  \/ a[1] < b[1]
  \/ a[1] = b[1] /\ a[2] < b[2]
  \/ a[1] = b[1] /\ a[2] = b[2] /\ a[3] < b[3]

Parses(t) ==
  LET b == timetable[t[2]].data[t[3]] IN
  strptime_HM(b.start.str).ok /\ strptime_HM(b.end.str).ok

\* one event per triple, in the order of the dates, the entries and the blocks
EventsOf(pairs) ==
  [k \in 1..Cardinality(pairs) |->
     LET t == CHOOSE x \in pairs :
                Cardinality({y \in pairs : Before(y, x)}) = k - 1
         b == timetable[t[2]].data[t[3]]
     IN [kind    |-> "event",
         summary |-> ReplaceNewlines(b.value.str),
         dtstart |-> [date |-> t[1], hour |-> strptime_HM(b.start.str).hour,
                      minute |-> strptime_HM(b.start.str).minute],
         dtend   |-> [date |-> t[1], hour |-> strptime_HM(b.end.str).hour,
                      minute |-> strptime_HM(b.end.str).minute]]]

\* C8 as stated: the calendar holds exactly one event per (date, block) with
\* the date in [start_date, end_date], the block in the first day entry whose
\* day is the date's weekday name, and start, end and value all non-empty.
C8_EventsOfFirstMatchingEntry ==
  cpc = "written" => ics.events = EventsOf(FirstMatchPairs)

\* C8 as amended: the same, with the block in any day entry whose day is the
\* date's weekday name (every matching entry, in order), when the start and
\* the end of each such block parse as %H:%M; when one does not, ValueError is
\* raised and no calendar is written.
C8_EventsOfEveryMatchingEntry ==
  /\ cpc = "written" =>
       /\ \A t \in QualifyingPairs : Parses(t)
       /\ ics.events = EventsOf(QualifyingPairs)
  /\ cpc = "raised" =>
       /\ ics = NoFile
       /\ \E t \in QualifyingPairs : ~Parses(t)

\* two Mondays in the range, the gap placeholder between two blocks
C8_Witness ==
  /\ cpc = "written"
  /\ timetable = <<[day |-> Monday, data |-> <<ValidBlock, GapBlock, LaterBlock>>]>>
  /\ start_date = 1
  /\ end_date = 8
  /\ Len(ics.events) = 4
  /\ ics.events[1].summary = <<"A", " ", "B">>

(***************************************************************************)
(* Claims on the /download endpoint (DownloadSpec)                         *)
(***************************************************************************)
\* C11: whatever the cache holds, every /download request completes by
\* returning the spreadsheet document: built from the cached table on a hit,
\* from the computed and then cached table on a miss.
C11_DownloadReturnsDocument ==
  request # NoRequest => response.kind = "document"

====
